---- MODULE Spec2Model ----
(***************************************************************************)
(* Model of the regops decision pipeline:                                  *)
(*   - workflow/rule_engine.py   evaluate_applicability                    *)
(*   - workflow/schedule.py      compute_schedule                          *)
(*   - workflow/critical_path.py critical_path                             *)
(* Durations, lags and offsets are floats in the source; here they are     *)
(* integers counting half days (1 = 0.5 day), which is exact for every     *)
(* value that is a multiple of half a day.                                 *)
(***************************************************************************)
EXTENDS Integers, Sequences, FiniteSets, TLC

VARIABLES
    \* ---- evaluate_applicability
    rules,          \* argument: the rule list
    profile,        \* argument: the ProjectProfile (its seven dimensions)
    rIdx,           \* position of the `for rule in rules` loop (next rule)
    ok,             \* local `ok` of the last loop iteration
    included,       \* local set `included`
    excluded,       \* local set `excluded`
    matched_rules,  \* local list `matched_rules`
    reResult,       \* the returned dict (None before the return)
    reFirst,        \* what the first of two calls returned (None during it)
    rePc,           \* "idle" | "loop" | "done"
    \* ---- compute_schedule
    compiled_tasks,         \* argument: list of CompiledTask
    dependencies,           \* argument: the dependency table, a list of rows
    plan_start_date,        \* argument, as days since 2024-01-01
    duration_mode,          \* argument: "statutory" | "practical"
    fallback_to_practical,  \* argument
    order,          \* local `order`: the topological order in use
    starts,         \* local dict `starts` (half days)
    durs,           \* local dict `durs` (half days)
    sIdx,           \* position of the `for tc in order` constraint loop
    planned,        \* the returned dict task_code -> PlannedTaskDates
    schedPc,        \* "idle" | "start" | "loop" | "done" | "cycle_error"
    \* ---- critical_path
    durations,      \* argument: dict task_code -> duration (half days)
    topo,           \* local `topo`
    dist,           \* local dict `dist`
    pred,           \* local dict `pred` (None or a task code)
    cIdx,           \* position of the `for tc in topo` loop
    cpResult,       \* the returned CriticalPathResult
    cpPc,           \* "idle" | "start" | "loop" | "done" | "cycle_error" |
                    \* "max_error"
    \* ---- compile_tasks
    lib,                \* argument: the library tables (tasks,
                        \* statutory_durations, practical_durations)
    task_codes,         \* argument: the selected task codes
    matched_rule_ids,   \* argument
    tasks,              \* local `tasks`: the selected rows, sorted
    compiled,           \* local list `compiled`
    compilePc,          \* "idle" | "start" | "loop" | "done"
    \* ---- notebooks/04_instantiate_project_to_clickup.py, main
    server_tasks,           \* the tasks the ClickUp list stores: for each
                            \* id, its name and its Task Code field
    existing_by_task_code,  \* local dict: Task Code -> id of a fetched task
    tid,                    \* local `tid` (0 before the first task)
    uIdx,                   \* position of the `for t in compiled` loop
    calls,                  \* the create_task / update_task calls issued so
                            \* far, over all runs
    run,                    \* number of the run of main
    clickPc                 \* "idle" | "fetch" | "loop" | "task_code" |
                            \* "fields" | "done" | "error"

reVars == <<rules, profile, rIdx, ok, included, excluded, matched_rules, reResult,
           reFirst, rePc>>

schedVars == <<compiled_tasks, dependencies, plan_start_date, duration_mode,
               fallback_to_practical, order, starts, durs, sIdx, planned, schedPc>>

cpVars == <<durations, topo, dist, pred, cIdx, cpResult, cpPc>>

compileVars == <<lib, task_codes, matched_rule_ids, tasks, compiled, compilePc>>

clickVars == <<server_tasks, existing_by_task_code, tid, uIdx, calls, run, clickPc>>

vars == <<reVars, schedVars, cpVars, compileVars, clickVars>>

\* Python's None; an optional value v is <<v>> when present.
None == <<>>
Some(v) == <<v>>

Range(s) == {s[i] : i \in DOMAIN s}

\* dict.get(key, default)
Get(d, key, default) == IF key \in DOMAIN d THEN d[key] ELSE default

(***************************************************************************)
(* Bounds                                                                  *)
(***************************************************************************)
MaxRules == 3
MaxDeps == 2
MaxRows == 3
\* Number of runs of the ClickUp notebook against the same list.
MaxRuns == 2

(***************************************************************************)
(* rule_engine.py                                                          *)
(***************************************************************************)
Dims == {"classification", "project_type", "grid_interaction", "capacity_band",
         "regulatory_path", "location_constraint", "environmental_regime"}

\* Task codes in lexical order (the order `sorted` gives them).
TaskCodeOrder == <<"T1", "T2", "T3">>

\* sorted(list(S)) for a set S of task codes
Sorted(S) ==
    LET F[i \in 0..Len(TaskCodeOrder)] ==
            IF i = 0 THEN <<>>
            ELSE IF TaskCodeOrder[i] \in S THEN Append(F[i-1], TaskCodeOrder[i])
                 ELSE F[i-1]
    IN F[Len(TaskCodeOrder)]

\* Profiles: one with value "a" in every dimension, and for each dimension
\* one that has "b" there and "a" elsewhere.
Profiles ==
    {[d \in Dims |-> "a"]} \cup
    {[d \in Dims |-> IF d = e THEN "b" ELSE "a"] : e \in Dims}

\* The rule library the rule lists are drawn from.  Keys may be absent, as
\* in the YAML the rules are loaded from.
RuleCatalogue ==
    { [rule_id |-> "R1",
       match   |-> [d \in Dims |-> <<"a">>],
       apply   |-> [include_tasks |-> <<"T1", "T2">>, exclude_tasks |-> <<>>]],
      [rule_id |-> "R2",
       match   |-> [classification |-> <<"a", "b">>, environmental_regime |-> <<"ANY">>],
       apply   |-> [include_tasks |-> <<"T3">>, exclude_tasks |-> <<"T1">>]],
      [rule_id |-> "R3",
       apply   |-> [include_tasks |-> <<"T2", "T1">>]],
      [rule_id |-> "R4",
       match   |-> [project_type |-> <<"b", "ANY">>, classification |-> <<"b">>],
       apply   |-> [include_tasks |-> <<"T1">>, exclude_tasks |-> <<"T2">>]],
      [match   |-> [grid_interaction |-> <<"b">>, capacity_band |-> <<"a">>]],
      [rule_id |-> "R6",
       match   |-> [d \in Dims |-> <<"ANY">>],
       apply   |-> [include_tasks |-> <<>>, exclude_tasks |-> <<"T3">>]] }

RuleLists == UNION {[1..n -> RuleCatalogue] : n \in 0..MaxRules}

\* _match_dim(value, allowed_values)
_match_dim(value, allowed_values) ==
    IF "ANY" \in Range(allowed_values) THEN TRUE
    ELSE value \in Range(allowed_values)

\* (mutant) the environmental_regime test is left out
RuleOk_NoRegime(rule, p) ==
    LET m == Get(rule, "match", <<>>)
    IN  /\ _match_dim(p["classification"], Get(m, "classification", <<"ANY">>))
        /\ _match_dim(p["project_type"], Get(m, "project_type", <<"ANY">>))
        /\ _match_dim(p["grid_interaction"], Get(m, "grid_interaction", <<"ANY">>))
        /\ _match_dim(p["capacity_band"], Get(m, "capacity_band", <<"ANY">>))
        /\ _match_dim(p["regulatory_path"], Get(m, "regulatory_path", <<"ANY">>))
        /\ _match_dim(p["location_constraint"], Get(m, "location_constraint", <<"ANY">>))

\* The body of the loop up to `if ok`: the conjunction of the seven tests.
RuleOk(rule, p) ==
    LET m == Get(rule, "match", <<>>)
    IN  /\ _match_dim(p["classification"], Get(m, "classification", <<"ANY">>))
        /\ _match_dim(p["project_type"], Get(m, "project_type", <<"ANY">>))
        /\ _match_dim(p["grid_interaction"], Get(m, "grid_interaction", <<"ANY">>))
        /\ _match_dim(p["capacity_band"], Get(m, "capacity_band", <<"ANY">>))
        /\ _match_dim(p["regulatory_path"], Get(m, "regulatory_path", <<"ANY">>))
        /\ _match_dim(p["location_constraint"], Get(m, "location_constraint", <<"ANY">>))
        /\ _match_dim(p["environmental_regime"], Get(m, "environmental_regime", <<"ANY">>))

\* (mutant) a rule id already in the list is not appended again
ApplyRule_DedupIds(acc, rule, p) ==
    LET rid  == Get(rule, "rule_id", "UNKNOWN")
        a    == Get(rule, "apply", <<>>)
    IN  IF RuleOk(rule, p)
        THEN [ok            |-> TRUE,
              matched_rules |-> IF rid \in Range(acc.matched_rules)
                                THEN acc.matched_rules
                                ELSE Append(acc.matched_rules, rid),
              included      |-> acc.included \cup Range(Get(a, "include_tasks", <<>>)),
              excluded      |-> acc.excluded \cup Range(Get(a, "exclude_tasks", <<>>))]
        ELSE [acc EXCEPT !.ok = FALSE]

\* (mutant) a matching rule's excludes are removed from what has been
\* included so far, instead of being accumulated
ApplyRule_ExcludeNow(acc, rule, p) ==
    LET rid  == Get(rule, "rule_id", "UNKNOWN")
        a    == Get(rule, "apply", <<>>)
    IN  IF RuleOk(rule, p)
        THEN [ok            |-> TRUE,
              matched_rules |-> Append(acc.matched_rules, rid),
              included      |-> (acc.included \cup Range(Get(a, "include_tasks", <<>>)))
                                    \ Range(Get(a, "exclude_tasks", <<>>)),
              excluded      |-> acc.excluded]
        ELSE [acc EXCEPT !.ok = FALSE]

\* One iteration of `for rule in rules` on the accumulator
\* acc = [ok, included, excluded, matched_rules].  (`x or []` leaves a list
\* as it is; an absent key gives the empty list.)
ApplyRule(acc, rule, p) ==
    LET rid  == Get(rule, "rule_id", "UNKNOWN")
        isOk == RuleOk(rule, p)
        a    == Get(rule, "apply", <<>>)
    IN  IF isOk
        THEN [ok            |-> TRUE,
              matched_rules |-> Append(acc.matched_rules, rid),
              included      |-> acc.included \cup Range(Get(a, "include_tasks", <<>>)),
              excluded      |-> acc.excluded \cup Range(Get(a, "exclude_tasks", <<>>))]
        ELSE [acc EXCEPT !.ok = FALSE]

\* Lines 51-57: the returned dict.
RuleResult(acc) ==
    [matched_rules |-> acc.matched_rules,
     include       |-> Sorted(acc.included),
     exclude       |-> Sorted(acc.excluded),
     final_tasks   |-> Sorted(acc.included \ acc.excluded)]

EmptyAcc == [ok |-> TRUE, matched_rules |-> <<>>, included |-> {}, excluded |-> {}]

\* (mutant) the sets and the list of the previous call are still there
EntryAcc_Stale(prev) == [prev EXCEPT !.ok = TRUE]

\* Lines 29-31: the locals at the entry of a call; prev is what the previous
\* call left in its own locals, which the new call cannot see.
EntryAcc(prev) == EmptyAcc

\* evaluate_applicability(rules, profile) as a function of its arguments.
RECURSIVE FoldRules(_, _, _, _)
FoldRules(rs, p, i, acc) ==
    IF i > Len(rs) THEN acc ELSE FoldRules(rs, p, i + 1, ApplyRule(acc, rs[i], p))

evaluate_applicability(rs, p) == RuleResult(FoldRules(rs, p, 1, EmptyAcc))

\* The state of the ClickUp run while it is not running.
ClickIdle ==
    /\ server_tasks = <<>> /\ existing_by_task_code = <<>> /\ tid = 0
    /\ uIdx = 1 /\ calls = <<>> /\ run = 1 /\ clickPc = "idle"

\* The state of compile_tasks while it is not running.
CompileIdle ==
    /\ lib = <<>> /\ task_codes = <<>> /\ matched_rule_ids = <<>>
    /\ tasks = <<>> /\ compiled = <<>> /\ compilePc = "idle"

\* The schedule and critical-path state while only the rule engine runs.
SchedIdle ==
    /\ compiled_tasks = <<>> /\ dependencies = <<>> /\ plan_start_date = 0
    /\ duration_mode = "practical" /\ fallback_to_practical = TRUE
    /\ order = <<>> /\ starts = <<>> /\ durs = <<>> /\ sIdx = 1
    /\ planned = <<>> /\ schedPc = "idle"
    /\ durations = <<>> /\ topo = <<>> /\ dist = <<>> /\ pred = <<>>
    /\ cIdx = 1 /\ cpResult = None /\ cpPc = "idle"
    /\ CompileIdle /\ ClickIdle

ReInit ==
    /\ SchedIdle
    /\ rules \in RuleLists
    /\ profile \in Profiles
    /\ rIdx = 1
    /\ ok = TRUE
    /\ included = {}
    /\ excluded = {}
    /\ matched_rules = <<>>
    /\ reResult = None
    /\ reFirst = None
    /\ rePc = "loop"

\* One iteration of the loop of evaluate_applicability.
RuleStep ==
    /\ rePc = "loop"
    /\ rIdx <= Len(rules)
    /\ LET acc == ApplyRule([ok |-> ok, matched_rules |-> matched_rules,
                             included |-> included, excluded |-> excluded],
                            rules[rIdx], profile)
       IN  /\ ok' = acc.ok
           /\ matched_rules' = acc.matched_rules
           /\ included' = acc.included
           /\ excluded' = acc.excluded
    /\ rIdx' = rIdx + 1
    /\ UNCHANGED <<rules, profile, reResult, reFirst, rePc, schedVars, cpVars, compileVars, clickVars>>

\* The loop has ended: build and return the result.
RuleReturn ==
    /\ rePc = "loop"
    /\ rIdx > Len(rules)
    /\ reResult' = RuleResult([ok |-> ok, matched_rules |-> matched_rules,
                               included |-> included, excluded |-> excluded])
    /\ rePc' = "done"
    /\ UNCHANGED <<rules, profile, rIdx, ok, included, excluded, matched_rules,
                   reFirst, schedVars, cpVars, compileVars, clickVars>>

\* The caller keeps the result and calls evaluate_applicability again with
\* the same rules and profile: lines 29-31 of the second call.
RuleCallAgain ==
    /\ rePc = "done"
    /\ reFirst = None
    /\ reFirst' = Some(reResult)
    /\ LET acc == EntryAcc([ok |-> ok, matched_rules |-> matched_rules,
                            included |-> included, excluded |-> excluded])
       IN  /\ ok' = acc.ok
           /\ matched_rules' = acc.matched_rules
           /\ included' = acc.included
           /\ excluded' = acc.excluded
    /\ rIdx' = 1
    /\ reResult' = None
    /\ rePc' = "loop"
    /\ UNCHANGED <<rules, profile, schedVars, cpVars, compileVars, clickVars>>

RulesNext == RuleStep \/ RuleReturn \/ RuleCallAgain

SpecRules == ReInit /\ [][RulesNext]_vars

(***************************************************************************)
(* Claims about evaluate_applicability                                     *)
(***************************************************************************)
\* The permutations of 1..n
Perms(n) == {f \in [1..n -> 1..n] : \A i, j \in 1..n : f[i] = f[j] => i = j}

\* The claim's notion of a match, dimension by dimension: the clause of the
\* dimension (<<"ANY">> when the dimension or the whole match clause is
\* missing) contains the profile's value or contains ANY.
ClauseOf(rule, d) ==
    IF "match" \in DOMAIN rule /\ d \in DOMAIN rule["match"] THEN rule["match"][d] ELSE <<"ANY">>

ClaimMatches(rule, p) ==
    \A d \in Dims : \E i \in DOMAIN ClauseOf(rule, d) :
        ClauseOf(rule, d)[i] = p[d] \/ ClauseOf(rule, d)[i] = "ANY"

TasksOf(rule, key) ==
    IF "apply" \in DOMAIN rule /\ key \in DOMAIN rule["apply"]
    THEN Range(rule["apply"][key]) ELSE {}

MatchedIncludes == UNION {TasksOf(rules[i], "include_tasks") :
                            i \in {j \in DOMAIN rules : ClaimMatches(rules[j], profile)}}
MatchedExcludes == UNION {TasksOf(rules[i], "exclude_tasks") :
                            i \in {j \in DOMAIN rules : ClaimMatches(rules[j], profile)}}

\* C1: the returned final_tasks is (union of include_tasks of the matching
\* rules) minus (union of their exclude_tasks), and evaluating any
\* permutation of the rule list returns the same final_tasks.
C1_FinalTasksIsUnionMinusUnion ==
    rePc = "done" =>
        /\ Range(reResult.final_tasks) = MatchedIncludes \ MatchedExcludes
        /\ \A f \in Perms(Len(rules)) :
              evaluate_applicability([i \in 1..Len(rules) |-> rules[f[i]]], profile).final_tasks
                = reResult.final_tasks

\* A task is excluded by the first rule and included by a later one, both
\* matching, and the call has returned.
C1_Witness ==
    /\ rePc = "done"
    /\ \E i, j \in DOMAIN rules :
          /\ i < j
          /\ ClaimMatches(rules[i], profile) /\ ClaimMatches(rules[j], profile)
          /\ TasksOf(rules[i], "exclude_tasks") \cap TasksOf(rules[j], "include_tasks") # {}
    /\ reResult.final_tasks # <<>>

\* C2: after each loop iteration, `ok` is true exactly when every one of
\* the seven dimensions' clauses contains the profile's value or ANY (a
\* missing clause counting as [ANY]); a rule with no match clause, or with
\* all clauses ANY, matches every profile.
C2_MatchIffAllSevenDimensions ==
    (rePc = "loop" /\ rIdx > 1) =>
        LET rule == rules[rIdx - 1]
        IN  /\ ok = ClaimMatches(rule, profile)
            /\ ("match" \notin DOMAIN rule => ok)
            /\ (("match" \in DOMAIN rule /\ DOMAIN rule["match"] = Dims
                  /\ \A d \in Dims : rule["match"][d] = <<"ANY">>) => ok)

\* A rule that constrains all seven dimensions has been rejected because of
\* the profile's environmental regime alone.
C2_Witness ==
    /\ rePc = "loop" /\ rIdx > 1
    /\ ~ok
    /\ DOMAIN rules[rIdx - 1]["match"] = Dims
    /\ \A d \in Dims \ {"environmental_regime"} : profile[d] \in Range(rules[rIdx - 1]["match"][d])

(***************************************************************************)
(* schedule.py: inputs                                                     *)
(***************************************************************************)
\* CompiledTask, reduced to the fields compute_schedule reads.
Task(code, stat, prac) ==
    [task_code |-> code, statutory_max_days |-> stat, practical_typical_days |-> prac]

\* The compiled task lists (with the plan start date used with each).
\* Durations in half days: 4 = 2 days, 6 = 3 days, 2 = 1 day, 3 = 1.5 days.
Libraries ==
    { [plan_start_date |-> 0,
       compiled_tasks  |-> << Task("A", None, Some(4)),
                              Task("B", None, Some(6)),
                              Task("C", None, Some(2)) >>],
      [plan_start_date |-> 59,
       compiled_tasks  |-> << Task("C", Some(0), Some(3)),
                              Task("A", Some(3), None),
                              Task("B", None, None) >>],
      \* no task selected (a profile that no rule matches)
      [plan_start_date |-> 0,
       compiled_tasks  |-> << >>] }

\* (duration_mode, fallback_to_practical) of the calls that are scheduled
\* with dependencies: the notebook's call, and statutory mode without
\* fallback.
ScheduleCalls == {<<"practical", TRUE>>, <<"statutory", FALSE>>}

\* Optional durations in half days: undefined, 0, 1.5 days, 2 days
OptionalDays == {None, Some(0), Some(3), Some(4)}

\* (predecessor, successor) pairs of the dependency rows; "X" is a task code
\* that is never among the compiled tasks.
DepPairs == << <<"A", "A">>, <<"A", "B">>, <<"A", "C">>, <<"C", "A">>,
               <<"B", "C">>, <<"A", "X">>, <<"X", "A">> >>

\* (dependency_type, lag_days) of the dependency rows; lag in half days,
\* None for an empty cell.
DepKinds == << <<"FS", Some(0)>>, <<"FS", Some(-3)>>, <<"SS", Some(1)>>,
               <<"FF", Some(-1)>>, <<"XX", None>> >>

DepRow(i) ==
    LET pr == DepPairs[((i - 1) \div Len(DepKinds)) + 1]
        kd == DepKinds[((i - 1) % Len(DepKinds)) + 1]
    IN  [predecessor_task_code |-> pr[1], successor_task_code |-> pr[2],
         dependency_type |-> kd[1], lag_days |-> kd[2]]

NumDepRows == Len(DepPairs) * Len(DepKinds)

\* The dependency tables: up to MaxDeps distinct rows.
DepTables ==
    LET Idx(n) == {f \in [1..n -> 1..NumDepRows] : \A i \in 1..(n-1) : f[i] < f[i+1]}
    IN  UNION {{[i \in 1..n |-> DepRow(f[i])] : f \in Idx(n)} : n \in 0..MaxDeps}

(***************************************************************************)
(* schedule.py: compute_schedule                                           *)
(***************************************************************************)
\* task_codes = list(task_map.keys())
TaskCodesOf(ts) == {ts[i].task_code : i \in DOMAIN ts}

\* task_map[tc]
TaskOf(ts, tc) == ts[CHOOSE i \in DOMAIN ts : ts[i].task_code = tc]

\* (mutant) statutory mode falls back to the practical value whatever
\* fallback_to_practical says
get_dur_AlwaysFallback(t, mode, fallback) ==
    IF mode = "statutory"
    THEN IF t.statutory_max_days # None THEN t.statutory_max_days[1]
         ELSE IF t.practical_typical_days # None THEN t.practical_typical_days[1]
         ELSE 0
    ELSE IF t.practical_typical_days # None THEN t.practical_typical_days[1]
         ELSE IF t.statutory_max_days # None THEN t.statutory_max_days[1]
         ELSE 0

\* (mutant) practical mode takes the statutory value only when
\* fallback_to_practical is set
get_dur_PracticalNeedsFlag(t, mode, fallback) ==
    IF mode = "statutory"
    THEN IF t.statutory_max_days # None THEN t.statutory_max_days[1]
         ELSE IF fallback /\ t.practical_typical_days # None THEN t.practical_typical_days[1]
         ELSE 0
    ELSE IF t.practical_typical_days # None THEN t.practical_typical_days[1]
         ELSE IF fallback /\ t.statutory_max_days # None THEN t.statutory_max_days[1]
         ELSE 0

\* get_dur(tc)
get_dur(t, mode, fallback) ==
    IF mode = "statutory"
    THEN IF t.statutory_max_days # None THEN t.statutory_max_days[1]
         ELSE IF fallback /\ t.practical_typical_days # None THEN t.practical_typical_days[1]
         ELSE 0
    ELSE IF t.practical_typical_days # None THEN t.practical_typical_days[1]
         ELSE IF t.statutory_max_days # None THEN t.statutory_max_days[1]
         ELSE 0

\* (mutant) every row of the table is kept
Rels_NoFilter(deps, codes) == deps

\* rels: the rows whose predecessor and successor are both in task_codes
Rels(deps, codes) ==
    LET Keep(r) == r.predecessor_task_code \in codes /\ r.successor_task_code \in codes
    IN  SelectSeq(deps, Keep)

\* (mutant) only the rows of type FS add an edge
EdgesOf_FSOnly(rels) ==
    {<<rels[i].predecessor_task_code, rels[i].successor_task_code>> :
        i \in {j \in DOMAIN rels : rels[j].dependency_type = "FS"}}

\* (mutant) rows from a task to itself add no edge
EdgesOf_NoSelfEdge(rels) ==
    {<<rels[i].predecessor_task_code, rels[i].successor_task_code>> :
        i \in {j \in DOMAIN rels :
                  rels[j].predecessor_task_code # rels[j].successor_task_code}}

\* The edges of the DiGraph g built from rels
EdgesOf(rels) ==
    {<<rels[i].predecessor_task_code, rels[i].successor_task_code>> : i \in DOMAIN rels}

\* (mutant) the nodes are taken in any order, the edges ignored
TopoOrders_AnyOrder(nodes, edges) ==
    {o \in [1..Cardinality(nodes) -> nodes] : \A i, j \in DOMAIN o : o[i] = o[j] => i = j}

\* The orders nx.topological_sort may produce: every arrangement of the
\* nodes in which each edge goes forward.
TopoOrders(nodes, edges) ==
    {o \in [1..Cardinality(nodes) -> nodes] :
        /\ \A i, j \in DOMAIN o : o[i] = o[j] => i = j
        /\ \A e \in edges : \E i, j \in DOMAIN o : i < j /\ o[i] = e[1] /\ o[j] = e[2]}

\* nx.is_directed_acyclic_graph(g)
is_directed_acyclic_graph(nodes, edges) == TopoOrders(nodes, edges) # {}

\* lag = 0.0 if pd.isna(lag) or lag == "" else float(lag)
LagOf(r) == IF r.lag_days = None THEN 0 ELSE r.lag_days[1]

\* (mutant) FF adds the successor's duration instead of subtracting it
Constraint_FFAddsDuration(r, tc, st, du) ==
    LET pre_finish == st[r.predecessor_task_code] + du[r.predecessor_task_code]
    IN  IF r.dependency_type = "SS" THEN st[r.predecessor_task_code] + LagOf(r)
        ELSE IF r.dependency_type = "FF" THEN pre_finish + LagOf(r) + du[tc]
        ELSE pre_finish + LagOf(r)

\* (mutant) FS is measured from the predecessor's start
Constraint_FSFromStart(r, tc, st, du) ==
    LET pre_finish == st[r.predecessor_task_code] + du[r.predecessor_task_code]
    IN  IF r.dependency_type \in {"FS", "SS"} THEN st[r.predecessor_task_code] + LagOf(r)
        ELSE IF r.dependency_type = "FF" THEN pre_finish + LagOf(r) - du[tc]
        ELSE pre_finish + LagOf(r)

\* (mutant) SS ignores the lag
Constraint_SSNoLag(r, tc, st, du) ==
    LET pre_finish == st[r.predecessor_task_code] + du[r.predecessor_task_code]
    IN  IF r.dependency_type = "SS" THEN st[r.predecessor_task_code]
        ELSE IF r.dependency_type = "FF" THEN pre_finish + LagOf(r) - du[tc]
        ELSE pre_finish + LagOf(r)

\* The constraint one incoming row r puts on the start of tc (lines 81-98)
Constraint(r, tc, st, du) ==
    LET pre        == r.predecessor_task_code
        dep_type   == r.dependency_type
        lag        == LagOf(r)
        pre_start  == st[pre]
        pre_finish == pre_start + du[pre]
    IN  IF dep_type = "FS" THEN pre_finish + lag
        ELSE IF dep_type = "SS" THEN pre_start + lag
        ELSE IF dep_type = "FF" THEN pre_finish + lag - du[tc]
        ELSE pre_finish + lag

\* (mutant) every constraint replaces best, larger or not
RECURSIVE BestStart_LastWins(_, _, _, _, _, _)
BestStart_LastWins(rels, i, tc, st, du, best) ==
    IF i > Len(rels) THEN best
    ELSE IF rels[i].successor_task_code # tc
         THEN BestStart_LastWins(rels, i + 1, tc, st, du, best)
         ELSE BestStart_LastWins(rels, i + 1, tc, st, du, Constraint(rels[i], tc, st, du))

\* The loop over `incoming` (lines 77-101): best starts at starts[tc] and
\* is raised by every larger constraint.
RECURSIVE BestStart(_, _, _, _, _, _)
BestStart(rels, i, tc, st, du, best) ==
    IF i > Len(rels) THEN best
    ELSE IF rels[i].successor_task_code # tc THEN BestStart(rels, i + 1, tc, st, du, best)
    ELSE LET constraint == Constraint(rels[i], tc, st, du)
         IN  BestStart(rels, i + 1, tc, st, du, IF constraint > best THEN constraint ELSE best)

\* (mutant) best starts at the first constraint, not at starts[tc]
StartFor_NoFloor(rels, tc, st, du) ==
    IF \E i \in DOMAIN rels : rels[i].successor_task_code = tc
    THEN BestStart(rels, 1, tc, st, du, -1000)
    ELSE st[tc]

\* One iteration of the constraint loop: the new value of starts[tc]
StartFor(rels, tc, st, du) == BestStart(rels, 1, tc, st, du, st[tc])

\* The whole pass `for tc in order` (lines 75-102) from position i on
RECURSIVE FoldStarts(_, _, _, _, _)
FoldStarts(rels, o, i, st, du) ==
    IF i > Len(o) THEN st
    ELSE FoldStarts(rels, o, i + 1, [st EXCEPT ![o[i]] = StartFor(rels, o[i], st, du)], du)

\* starts as lines 71-102 leave it when the tasks are processed in order o
ComputeStarts(rels, o, du) == FoldStarts(rels, o, 1, [tc \in Range(o) |-> 0], du)

\* int(round(x)) for x given in half days: Python rounds a tie to the even
\* integer.
RoundDays(h) ==
    LET k == h \div 2
    IN  IF h % 2 = 0 THEN k
        ELSE IF k % 2 = 0 THEN k ELSE k + 1

\* PlannedTaskDates for tc (lines 106-110)
PlannedTaskDates(tc, start0, st, du) ==
    LET s  == st[tc]
        d  == du[tc]
        ps == start0 + RoundDays(s)
        pf == ps + RoundDays(d)
    IN  [task_code |-> tc, planned_start |-> ps, planned_finish |-> pf, duration_days |-> d]

SchedRels == Rels(dependencies, TaskCodesOf(compiled_tasks))

\* Lines 57-66, the graph has a cycle: raise ValueError.
SchedRaiseCycle ==
    /\ schedPc = "start"
    /\ ~is_directed_acyclic_graph(TaskCodesOf(compiled_tasks), EdgesOf(SchedRels))
    /\ schedPc' = "cycle_error"
    /\ cpPc' = "start"
    /\ UNCHANGED <<reVars, compileVars, clickVars, compiled_tasks, dependencies, plan_start_date, duration_mode,
                   fallback_to_practical, order, starts, durs, sIdx, planned,
                   durations, topo, dist, pred, cIdx, cpResult>>

\* Lines 57-72, the graph is acyclic: take a topological order and
\* initialise starts and durs.
SchedBegin ==
    /\ schedPc = "start"
    /\ is_directed_acyclic_graph(TaskCodesOf(compiled_tasks), EdgesOf(SchedRels))
    /\ order' \in TopoOrders(TaskCodesOf(compiled_tasks), EdgesOf(SchedRels))
    /\ starts' = [tc \in TaskCodesOf(compiled_tasks) |-> 0]
    /\ durs' = [tc \in TaskCodesOf(compiled_tasks) |->
                    get_dur(TaskOf(compiled_tasks, tc), duration_mode, fallback_to_practical)]
    /\ sIdx' = 1
    /\ schedPc' = "loop"
    /\ UNCHANGED <<reVars, compileVars, clickVars, compiled_tasks, dependencies, plan_start_date, duration_mode,
                   fallback_to_practical, planned, cpVars>>

\* Lines 75-102: one iteration of `for tc in order`.
SchedTask ==
    /\ schedPc = "loop"
    /\ sIdx <= Len(order)
    /\ starts' = [starts EXCEPT ![order[sIdx]] = StartFor(SchedRels, order[sIdx], starts, durs)]
    /\ sIdx' = sIdx + 1
    /\ UNCHANGED <<reVars, compileVars, clickVars, compiled_tasks, dependencies, plan_start_date, duration_mode,
                   fallback_to_practical, order, durs, planned, schedPc, cpVars>>

\* Lines 104-112: build the planned dates and return.
SchedReturn ==
    /\ schedPc = "loop"
    /\ sIdx > Len(order)
    /\ planned' = [tc \in Range(order) |-> PlannedTaskDates(tc, plan_start_date, starts, durs)]
    /\ schedPc' = "done"
    /\ order' = <<>>          \* the loop's order and position end with the call;
    /\ sIdx' = 1              \* starts and durs are kept for inspection
    /\ cpPc' = "start"
    /\ UNCHANGED <<reVars, compileVars, clickVars, compiled_tasks, dependencies, plan_start_date, duration_mode,
                   fallback_to_practical, starts, durs,
                   durations, topo, dist, pred, cIdx, cpResult>>

SchedInit ==
    /\ rules = <<>> /\ profile = <<>> /\ rIdx = 1 /\ ok = TRUE /\ included = {}
    /\ excluded = {} /\ matched_rules = <<>> /\ reResult = None /\ reFirst = None
    /\ rePc = "idle"
    /\ \E input \in Libraries :
          /\ compiled_tasks = input.compiled_tasks
          /\ plan_start_date = input.plan_start_date
    /\ dependencies \in DepTables
    /\ \E call \in ScheduleCalls :
          /\ duration_mode = call[1]
          /\ fallback_to_practical = call[2]
    /\ order = <<>> /\ starts = <<>> /\ durs = <<>> /\ sIdx = 1
    /\ planned = <<>> /\ schedPc = "start"
    /\ durations = <<>> /\ topo = <<>> /\ dist = <<>> /\ pred = <<>>
    /\ cIdx = 1 /\ cpResult = None /\ cpPc = "idle"
    /\ CompileIdle /\ ClickIdle

\* compute_schedule alone, on two tasks without dependencies, over every
\* combination of defined and undefined durations, mode and fallback flag.
DurInit ==
    /\ rules = <<>> /\ profile = <<>> /\ rIdx = 1 /\ ok = TRUE /\ included = {}
    /\ excluded = {} /\ matched_rules = <<>> /\ reResult = None /\ reFirst = None
    /\ rePc = "idle"
    /\ compiled_tasks \in {<<Task("A", s1, p1), Task("B", s2, p2)>> :
                                s1 \in OptionalDays, p1 \in OptionalDays,
                                s2 \in OptionalDays, p2 \in OptionalDays}
    /\ plan_start_date = 0
    /\ dependencies = <<>>
    /\ duration_mode \in {"statutory", "practical"}
    /\ fallback_to_practical \in BOOLEAN
    /\ order = <<>> /\ starts = <<>> /\ durs = <<>> /\ sIdx = 1
    /\ planned = <<>> /\ schedPc = "start"
    /\ durations = <<>> /\ topo = <<>> /\ dist = <<>> /\ pred = <<>>
    /\ cIdx = 1 /\ cpResult = None /\ cpPc = "idle"
    /\ CompileIdle /\ ClickIdle

DurNext == SchedBegin \/ SchedTask \/ SchedReturn

SpecDurations == DurInit /\ [][DurNext]_vars

(***************************************************************************)
(* critical_path.py: critical_path                                         *)
(***************************************************************************)
\* The durations maps critical_path is called with: the durations the
\* Scheduler resolves for the same tasks, or (as the reporting notebook
\* builds it) the practical typical days of the tasks that have one.
ResolvedDurations ==
    [tc \in TaskCodesOf(compiled_tasks) |->
        get_dur(TaskOf(compiled_tasks, tc), duration_mode, fallback_to_practical)]

PracticalDurations ==
    [tc \in {c \in TaskCodesOf(compiled_tasks) :
                TaskOf(compiled_tasks, c).practical_typical_days # None} |->
        TaskOf(compiled_tasks, tc).practical_typical_days[1]]

DurationMaps == {ResolvedDurations, PracticalDurations}

\* (mutant) the candidate always replaces the successor's value
RelaxDist_Overwrite(tc, edges, du, di) ==
    [x \in DOMAIN di |->
        IF <<tc, x>> \in edges THEN di[tc] + Get(du, x, 0) ELSE di[x]]

\* (mutant) the candidate adds the predecessor's duration, not the
\* successor's
RelaxDist_PredDuration(tc, edges, du, di) ==
    [x \in DOMAIN di |->
        IF <<tc, x>> \in edges /\ di[tc] + Get(du, tc, 0) > di[x]
        THEN di[tc] + Get(du, tc, 0) ELSE di[x]]

\* dist after the inner loop `for suc in g.successors(tc)` (lines 37-40)
RelaxDist(tc, edges, du, di) ==
    [x \in DOMAIN di |->
        IF <<tc, x>> \in edges /\ di[tc] + Get(du, x, 0) > di[x]
        THEN di[tc] + Get(du, x, 0) ELSE di[x]]

\* (mutant) a pointer that is set is never moved to a better predecessor
RelaxPred_KeepFirst(tc, edges, du, di, pr) ==
    [x \in DOMAIN pr |->
        IF <<tc, x>> \in edges /\ di[tc] + Get(du, x, 0) > di[x] /\ pr[x] = None
        THEN Some(tc) ELSE pr[x]]

\* (mutant) no pointer is recorded
RelaxPred_Never(tc, edges, du, di, pr) == pr

\* pred after the same loop
RelaxPred(tc, edges, du, di, pr) ==
    [x \in DOMAIN pr |->
        IF <<tc, x>> \in edges /\ di[tc] + Get(du, x, 0) > di[x]
        THEN Some(tc) ELSE pr[x]]

\* (mutant) the last maximal element
MaxByDist_Last(tp, di) ==
    tp[CHOOSE i \in DOMAIN tp :
          /\ \A j \in DOMAIN tp : di[tp[j]] <= di[tp[i]]
          /\ \A j \in DOMAIN tp : j > i => di[tp[j]] < di[tp[i]]]

\* max(topo, key=lambda x: dist.get(x, 0.0)): the first maximal element
MaxByDist(tp, di) ==
    tp[CHOOSE i \in DOMAIN tp :
          /\ \A j \in DOMAIN tp : di[tp[j]] <= di[tp[i]]
          /\ \A j \in DOMAIN tp : j < i => di[tp[j]] < di[tp[i]]]

\* The while loop of lines 47-50: end, pred[end], pred[pred[end]], ...
RECURSIVE PathBack(_, _)
PathBack(pr, cur) ==
    IF cur = None THEN <<>> ELSE <<cur[1]>> \o PathBack(pr, pr[cur[1]])

\* (mutant) the path is left in the order the pointers were followed
Reverse_Not(seq) == seq

\* path.reverse()
Reverse(seq) == [i \in 1..Len(seq) |-> seq[Len(seq) + 1 - i]]

\* dist and pred after the loop `for tc in topo` (lines 35-40) from
\* position i on
RECURSIVE FoldRelax(_, _, _, _, _, _)
FoldRelax(tp, i, edges, du, di, pr) ==
    IF i > Len(tp) THEN [dist |-> di, pred |-> pr]
    ELSE FoldRelax(tp, i + 1, edges, du,
                   RelaxDist(tp[i], edges, du, di),
                   RelaxPred(tp[i], edges, du, di, pr))

\* What critical_path returns for the graph (Range(tp), edges), the
\* topological order tp and the durations du (lines 32-53)
CriticalPathOf(tp, edges, du) ==
    LET f   == FoldRelax(tp, 1, edges, du,
                         [tc \in Range(tp) |-> Get(du, tc, 0)],
                         [tc \in Range(tp) |-> None])
        end == MaxByDist(tp, f.dist)
    IN  [critical_path |-> Reverse(PathBack(f.pred, Some(end))),
         total_duration |-> f.dist[end],
         longest_path_len_by_task |-> f.dist]

\* Lines 17-29, the graph has a cycle: raise ValueError.
CpRaiseCycle ==
    /\ cpPc = "start"
    /\ ~is_directed_acyclic_graph(TaskCodesOf(compiled_tasks), EdgesOf(SchedRels))
    /\ cpPc' = "cycle_error"
    /\ UNCHANGED <<reVars, compileVars, clickVars, schedVars, durations, topo, dist, pred, cIdx, cpResult>>

\* Lines 17-33, the graph is acyclic: topological order, dist and pred.
CpBegin ==
    /\ cpPc = "start"
    /\ is_directed_acyclic_graph(TaskCodesOf(compiled_tasks), EdgesOf(SchedRels))
    /\ durations' \in DurationMaps
    /\ topo' \in TopoOrders(TaskCodesOf(compiled_tasks), EdgesOf(SchedRels))
    /\ dist' = [tc \in TaskCodesOf(compiled_tasks) |-> Get(durations', tc, 0)]
    /\ pred' = [tc \in TaskCodesOf(compiled_tasks) |-> None]
    /\ cIdx' = 1
    /\ cpPc' = "loop"
    /\ UNCHANGED <<reVars, compileVars, clickVars, schedVars, cpResult>>

\* Lines 35-40: one iteration of `for tc in topo`.
CpNode ==
    /\ cpPc = "loop"
    /\ cIdx <= Len(topo)
    /\ dist' = RelaxDist(topo[cIdx], EdgesOf(SchedRels), durations, dist)
    /\ pred' = RelaxPred(topo[cIdx], EdgesOf(SchedRels), durations, dist, pred)
    /\ cIdx' = cIdx + 1
    /\ UNCHANGED <<reVars, compileVars, clickVars, schedVars, durations, topo, cpResult, cpPc>>

\* Line 42 with an empty topo: max() of an empty sequence raises
\* ValueError.
CpRaiseEmpty ==
    /\ cpPc = "loop"
    /\ cIdx > Len(topo)
    /\ topo = <<>>
    /\ cpPc' = "max_error"
    /\ UNCHANGED <<reVars, compileVars, clickVars, schedVars, durations, topo, dist, pred, cIdx,
                   cpResult>>

\* Lines 42-53: the end node, the path, the result.
CpReturn ==
    /\ cpPc = "loop"
    /\ cIdx > Len(topo)
    /\ topo # <<>>
    /\ LET end == MaxByDist(topo, dist)
       IN  cpResult' = Some([critical_path |-> Reverse(PathBack(pred, Some(end))),
                             total_duration |-> dist[end],
                             longest_path_len_by_task |-> dist])
    /\ cpPc' = "done"
    /\ UNCHANGED <<reVars, compileVars, clickVars, schedVars, durations, topo, dist, pred, cIdx>>

Init == SchedInit

Next ==
    \/ SchedRaiseCycle
    \/ SchedBegin
    \/ SchedTask
    \/ SchedReturn
    \/ CpRaiseCycle
    \/ CpBegin
    \/ CpNode
    \/ CpRaiseEmpty
    \/ CpReturn

Spec == Init /\ [][Next]_vars

(***************************************************************************)
(* instantiate.py: compile_tasks                                           *)
(* Of a CompiledTask the model keeps task_code, default_order, the four    *)
(* durations and matched_rule_ids; the texts (name, description, legal     *)
(* basis, role) play no part in the selection of rows or in the order.     *)
(* A string is a sequence of tokens, `a in b` is Contains(b, a).           *)
(***************************************************************************)
\* The table cells: NaN (an empty cell), a number, a text that is no number
NaN == [kind |-> "nan", v |-> 0]
Num(n) == [kind |-> "num", v |-> n]
Text == [kind |-> "text", v |-> 0]

\* rule_scope values
ScOther  == <<"nan">>
ScClsA   == <<"classification=", "a">>
ScClsAB  == <<"classification=", "a", "b">>
ScClsAny == <<"classification=", "ANY">>
ScEnvA   == <<"environmental_regime=", "a">>
ScBoth   == <<"classification=", "a", ";", "environmental_regime=", "ANY">>
ScRule   == <<"R1">>

\* The rows the duration tables are drawn from: task code, rule_scope and
\* the cell of the value column (max_days, typical_days).
DurationRowCatalogue ==
    << <<"A", ScOther, Num(1)>>, <<"A", ScOther, NaN>>,
       <<"A", ScClsA, Num(2)>>,  <<"A", ScClsA, NaN>>,
       <<"A", ScClsAB, Num(3)>>,
       <<"A", ScEnvA, Num(4)>>,  <<"A", ScEnvA, Text>>,
       <<"A", ScRule, Num(5)>>,
       <<"A", ScBoth, NaN>>,     <<"A", ScBoth, Num(0)>>,
       <<"A", ScClsAny, Num(6)>>,
       <<"B", ScClsA, Num(7)>>,  <<"B", ScOther, NaN>> >>

StatutoryRow(i) ==
    [task_code  |-> DurationRowCatalogue[i][1],
     rule_scope |-> DurationRowCatalogue[i][2],
     max_days   |-> DurationRowCatalogue[i][3]]

PracticalRow(i) ==
    [task_code    |-> DurationRowCatalogue[i][1],
     rule_scope   |-> DurationRowCatalogue[i][2],
     typical_days |-> DurationRowCatalogue[i][3],
     p10_days     |-> IF i % 3 = 0 THEN NaN ELSE Num(100 + i),
     p90_days     |-> Num(200 + i)]

\* The choices of up to MaxRows rows of the catalogue, in catalogue order
RowChoices ==
    LET N == Len(DurationRowCatalogue)
    IN  UNION {{f \in [1..n -> 1..N] : \A i \in 1..(n - 1) : f[i] < f[i + 1]} :
                  n \in 0..MaxRows}

\* The task tables: the tasks A, B, C or some of them, in any table order,
\* each task code once, default_order 2 or 10
TaskTables ==
    LET Codes == {"A", "B", "C"}
    IN  UNION {{t \in [1..n -> [task_code : Codes, default_order : {2, 10}]] :
                   \A i, j \in 1..n : t[i].task_code = t[j].task_code => i = j} :
                  n \in 0..Cardinality(Codes)}

\* The lists of selected task codes (X is in no task table)
SelectedLists == {<<>>, <<"A">>, <<"B", "A">>, <<"X", "C">>, <<"C", "A", "X", "A", "B">>}

\* The profiles compile_tasks is called with: the dimensions its code reads
\* are classification and environmental_regime.
CompileProfiles ==
    {p \in Profiles :
        \A d \in Dims \ {"classification", "environmental_regime"} : p[d] = "a"}

MatchedIdLists == {<<>>, <<"R1">>, <<"R2", "R1">>}

\* `pat in s` for strings
Contains(s, pat) ==
    \E i \in 0..(Len(s) - Len(pat)) : SubSeq(s, i + 1, i + Len(pat)) = pat

\* score(scope) of lines 59-70 and 92-103
score(s, p, ids) ==
    (IF /\ Contains(s, <<"classification=">>)
        /\ \/ Contains(s, <<"classification=", p["classification"]>>)
           \/ Contains(s, <<"classification=", "ANY">>)
     THEN 3 ELSE 0)
    + (IF /\ Contains(s, <<"environmental_regime=">>)
          /\ \/ Contains(s, <<"environmental_regime=", p["environmental_regime"]>>)
             \/ Contains(s, <<"environmental_regime=", "ANY">>)
       THEN 2 ELSE 0)
    + (IF \E i \in DOMAIN ids : s = <<ids[i]>> THEN 2 ELSE 0)

\* table[table["task_code"] == task_code]
RowsFor(table, task_code) ==
    LET Keep(r) == r.task_code = task_code
    IN  SelectSeq(table, Keep)

\* rows.sort_values(["__score"], ascending=False): the sort is pandas'
\* default, which is not a stable one, so rows of equal score may come out
\* in any order.  The result is given as the positions of the rows.
ScoreOrders(rows, p, ids) ==
    {o \in [1..Len(rows) -> 1..Len(rows)] :
        /\ \A i, j \in DOMAIN o : o[i] = o[j] => i = j
        /\ \A i \in 1..(Len(rows) - 1) :
              score(rows[o[i]].rule_scope, p, ids) >= score(rows[o[i + 1]].rule_scope, p, ids)}

\* float(x) where it succeeds; None for NaN, "" and what float() rejects
FloatOf(x) == IF x.kind = "num" THEN Some(x.v) ELSE None

\* Lines 76-84: the first row, in the sorted order o, whose max_days
\* converts
RECURSIVE FirstMaxDays(_, _, _)
FirstMaxDays(rows, o, i) ==
    IF i > Len(o) THEN None
    ELSE IF FloatOf(rows[o[i]].max_days) = None THEN FirstMaxDays(rows, o, i + 1)
    ELSE FloatOf(rows[o[i]].max_days)

\* _pick_statutory_duration on the rows of the task, sorted as o
_pick_statutory_duration(rows, o) ==
    IF rows = <<>> THEN None ELSE FirstMaxDays(rows, o, 1)

\* _pick_practical_duration on the rows of the task, sorted as o: the three
\* values of rows.iloc[0]
_pick_practical_duration(rows, o) ==
    IF rows = <<>> THEN <<None, None, None>>
    ELSE LET r0 == rows[o[1]]
         IN  <<FloatOf(r0.typical_days), FloatOf(r0.p10_days), FloatOf(r0.p90_days)>>

\* Task codes in lexical order
CodeOrder == <<"A", "B", "C", "X">>
CodeRank(c) == CHOOSE i \in DOMAIN CodeOrder : CodeOrder[i] = c

\* The decimal digits of a default_order below 100
Digits(n) == IF n < 10 THEN <<n>> ELSE <<n \div 10, n % 10>>

\* (mutant) default_order is compared as text
TaskKeyLess_OrderAsText(r1, r2) ==
    LET d1 == Digits(r1.default_order)
        d2 == Digits(r2.default_order)
        TextLess == \/ d1[1] < d2[1]
                    \/ d1[1] = d2[1] /\ Len(d1) < Len(d2)
                    \/ d1[1] = d2[1] /\ Len(d1) = 2 /\ Len(d2) = 2 /\ d1[2] < d2[2]
    IN  \/ TextLess
        \/ d1 = d2 /\ CodeRank(r1.task_code) < CodeRank(r2.task_code)

\* The order of sort_values(["default_order", "task_code"]): default_order
\* is an integer column (read_csv infers it)
TaskKeyLess(r1, r2) ==
    \/ r1.default_order < r2.default_order
    \/ /\ r1.default_order = r2.default_order
       /\ CodeRank(r1.task_code) < CodeRank(r2.task_code)

\* Lines 120-121: the rows of the selected codes, sorted
SelectedTasks(table, codes) ==
    LET Keep(r) == r.task_code \in Range(codes)
        rows == SelectSeq(table, Keep)
        o == CHOOSE f \in [1..Len(rows) -> 1..Len(rows)] :
                \A i, j \in DOMAIN f : i < j => TaskKeyLess(rows[f[i]], rows[f[j]])
    IN  [i \in 1..Len(rows) |-> rows[o[i]]]

\* Lines 148-164
CompiledTask(t, stat, prac, ids) ==
    [task_code              |-> t.task_code,
     default_order          |-> t.default_order,
     statutory_max_days     |-> stat,
     practical_typical_days |-> prac[1],
     practical_p10_days     |-> prac[2],
     practical_p90_days     |-> prac[3],
     matched_rule_ids       |-> ids]

\* Lines 120-123
CompileBegin ==
    /\ compilePc = "start"
    /\ tasks' = SelectedTasks(lib.tasks, task_codes)
    /\ compiled' = <<>>
    /\ compilePc' = "loop"
    /\ UNCHANGED <<reVars, schedVars, cpVars, clickVars, lib, task_codes, matched_rule_ids>>

\* Lines 124-164: one iteration of `for _, t in tasks.iterrows()`
CompileTask ==
    /\ compilePc = "loop"
    /\ Len(compiled) < Len(tasks)
    /\ LET t  == tasks[Len(compiled) + 1]
           sr == RowsFor(lib.statutory_durations, t.task_code)
           pr == RowsFor(lib.practical_durations, t.task_code)
       IN  \E so \in ScoreOrders(sr, profile, matched_rule_ids),
              po \in ScoreOrders(pr, profile, matched_rule_ids) :
              compiled' = Append(compiled,
                                 CompiledTask(t, _pick_statutory_duration(sr, so),
                                              _pick_practical_duration(pr, po),
                                              matched_rule_ids))
    /\ UNCHANGED <<reVars, schedVars, cpVars, clickVars, lib, task_codes, matched_rule_ids,
                   tasks, compilePc>>

\* Line 165
CompileReturn ==
    /\ compilePc = "loop"
    /\ Len(compiled) = Len(tasks)
    /\ compilePc' = "done"
    /\ UNCHANGED <<reVars, schedVars, cpVars, clickVars, lib, task_codes, matched_rule_ids,
                   tasks, compiled>>

\* compile_tasks is called either on any task table and selection, with one
\* fixed pair of duration tables, or on the tasks A and B with any duration
\* tables, profile and matched rule ids.
CompileInit ==
    /\ rules = <<>> /\ rIdx = 1 /\ ok = TRUE /\ included = {}
    /\ excluded = {} /\ matched_rules = <<>> /\ reResult = None /\ reFirst = None
    /\ rePc = "idle"
    /\ compiled_tasks = <<>> /\ dependencies = <<>> /\ plan_start_date = 0
    /\ duration_mode = "practical" /\ fallback_to_practical = TRUE
    /\ order = <<>> /\ starts = <<>> /\ durs = <<>> /\ sIdx = 1
    /\ planned = <<>> /\ schedPc = "idle"
    /\ durations = <<>> /\ topo = <<>> /\ dist = <<>> /\ pred = <<>>
    /\ cIdx = 1 /\ cpResult = None /\ cpPc = "idle"
    /\ ClickIdle
    /\ \/ /\ profile = [d \in Dims |-> "a"]
          /\ matched_rule_ids = <<"R1">>
          /\ task_codes \in SelectedLists
          /\ \E t \in TaskTables :
                lib = [tasks               |-> t,
                       statutory_durations |-> <<StatutoryRow(1), StatutoryRow(12)>>,
                       practical_durations |-> <<PracticalRow(3), PracticalRow(13)>>]
       \/ /\ profile \in CompileProfiles
          /\ matched_rule_ids \in MatchedIdLists
          /\ task_codes = <<"A", "B">>
          /\ \E f \in RowChoices :
                lib = [tasks               |-> <<[task_code |-> "A", default_order |-> 10],
                                                 [task_code |-> "B", default_order |-> 2]>>,
                       statutory_durations |-> [i \in DOMAIN f |-> StatutoryRow(f[i])],
                       practical_durations |-> [i \in DOMAIN f |-> PracticalRow(f[i])]]
    /\ tasks = <<>> /\ compiled = <<>> /\ compilePc = "start"

CompileNext == CompileBegin \/ CompileTask \/ CompileReturn

SpecCompile == CompileInit /\ [][CompileNext]_vars

(***************************************************************************)
(* Claims about compute_schedule and critical_path                         *)
(***************************************************************************)
\* The selected tasks and the dependency rows between them, read off the
\* arguments.
Selected == {compiled_tasks[i].task_code : i \in DOMAIN compiled_tasks}

InducedRows ==
    {i \in DOMAIN dependencies :
        /\ dependencies[i].predecessor_task_code \in Selected
        /\ dependencies[i].successor_task_code \in Selected}

InducedEdges ==
    {<<dependencies[i].predecessor_task_code, dependencies[i].successor_task_code>> :
        i \in InducedRows}

\* Pairs joined by a path of one or more induced edges
RECURSIVE Closure(_, _)
Closure(R, n) ==
    IF n = 0 THEN R
    ELSE Closure(R \cup {<<a, c>> \in Selected \X Selected :
                            \E b \in Selected : <<a, b>> \in R /\ <<b, c>> \in R}, n - 1)

InducedCycle == \E t \in Selected : <<t, t>> \in Closure(InducedEdges, Cardinality(Selected))

\* C3: when the edges between selected tasks contain a cycle, neither
\* function gets past its cycle check and both end in the cycle error with
\* nothing returned; when they contain none, neither raises the cycle error.
C3_CycleErrorIffInducedCycle ==
    LET cyclic == InducedCycle
    IN  /\ cyclic =>
              /\ schedPc \in {"start", "cycle_error"} /\ planned = <<>>
              /\ cpPc \in {"idle", "start", "cycle_error"} /\ cpResult = None
              /\ (cpPc # "idle" => schedPc = "cycle_error")
        /\ ~cyclic => schedPc # "cycle_error" /\ cpPc # "cycle_error"

\* Both functions have raised the cycle error on a table whose only induced
\* edge is a self-edge.
C3_Witness ==
    /\ schedPc = "cycle_error" /\ cpPc = "cycle_error"
    /\ \A e \in InducedEdges : e[1] = e[2]

\* compute_schedule has just returned: its offsets and dates can be read
\* (nothing changes them afterwards).
ScheduleDone == schedPc = "done" /\ cpPc = "start"

FinishOffset(tc) == starts[tc] + durs[tc]

\* The candidate of row i for the start of its successor, from the final
\* offsets
Candidate(i) ==
    LET r == dependencies[i]
        P == r.predecessor_task_code
        T == r.successor_task_code
        L == IF r.lag_days = None THEN 0 ELSE r.lag_days[1]
    IN  CASE r.dependency_type = "SS" -> starts[P] + L
          [] r.dependency_type = "FF" -> FinishOffset(P) + L - durs[T]
          [] OTHER -> FinishOffset(P) + L

Incoming(T) == {i \in InducedRows : dependencies[i].successor_task_code = T}

MaxOf(S) == CHOOSE m \in S : \A x \in S : x <= m

\* C4 as stated: the start offset of every task is the maximum candidate
\* over its incoming edges, and 0 when it has none.
C4_Original ==
    ScheduleDone =>
        \A T \in Selected :
            starts[T] = IF Incoming(T) = {} THEN 0
                        ELSE MaxOf({Candidate(i) : i \in Incoming(T)})

\* C4 (amended): the start offset of every task is the maximum of 0 and the
\* candidates of its incoming edges (so 0 when it has none, and 0 when all
\* candidates are negative); the finish offset is start + duration.
C4_StartIsMaxOfZeroAndCandidates ==
    ScheduleDone =>
        \A T \in Selected :
            starts[T] = MaxOf({0} \cup {Candidate(i) : i \in Incoming(T)})

\* A task with two incoming edges of different types, one of them FF, gets
\* a positive start from the larger candidate.
C4_Witness ==
    /\ ScheduleDone
    /\ \E T \in Selected : \E i, j \in Incoming(T) :
          /\ dependencies[i].dependency_type = "FF"
          /\ dependencies[j].dependency_type # "FF"
          /\ Candidate(i) > Candidate(j)
          /\ Candidate(i) > 0
          /\ starts[T] = Candidate(i)

\* C5 as stated: for every FS edge P->S, start(S) >= finish(P) + L, with
\* equality when no other incoming edge of S gives a larger candidate.
C5_Original ==
    ScheduleDone =>
        \A i \in InducedRows :
            dependencies[i].dependency_type = "FS" =>
                LET S == dependencies[i].successor_task_code
                IN  /\ starts[S] >= Candidate(i)
                    /\ (\A j \in Incoming(S) \ {i} : Candidate(j) <= Candidate(i))
                          => starts[S] = Candidate(i)

\* C5 (amended): for every FS edge P->S, start(S) >= finish(P) + L, and
\* when no other incoming edge of S gives a larger candidate start(S) is
\* finish(P) + L if that is not negative, and 0 if it is.
C5_FSLowerBoundAndTightness ==
    ScheduleDone =>
        \A i \in InducedRows :
            dependencies[i].dependency_type = "FS" =>
                LET S == dependencies[i].successor_task_code
                IN  /\ starts[S] >= Candidate(i)
                    /\ (\A j \in Incoming(S) \ {i} : Candidate(j) <= Candidate(i))
                          => starts[S] = IF Candidate(i) >= 0 THEN Candidate(i) ELSE 0

\* A (2 days, start 0) -FS lag 0-> B, as the only edge into B: start(B) is
\* day 2 (4 half days).
C5_Witness ==
    /\ ScheduleDone
    /\ \E i \in InducedRows :
          /\ dependencies[i].predecessor_task_code = "A"
          /\ dependencies[i].successor_task_code = "B"
          /\ dependencies[i].dependency_type = "FS"
          /\ dependencies[i].lag_days = Some(0)
          /\ Incoming("B") = {i}
          /\ starts["A"] = 0 /\ durs["A"] = 4 /\ starts["B"] = 4

\* C6: for every SS edge A->B, start(B) >= start(A) + L; for every FF edge
\* A->B, start(B) >= finish(A) + L - duration(B), that is, finish(B) >=
\* finish(A) + L.
C6_SSAndFFLowerBounds ==
    ScheduleDone =>
        \A i \in InducedRows :
            LET r == dependencies[i]
                A == r.predecessor_task_code
                B == r.successor_task_code
                L == IF r.lag_days = None THEN 0 ELSE r.lag_days[1]
            IN  /\ r.dependency_type = "SS" => starts[B] >= starts[A] + L
                /\ r.dependency_type = "FF" =>
                      /\ starts[B] >= FinishOffset(A) + L - durs[B]
                      /\ FinishOffset(B) >= FinishOffset(A) + L

\* A schedule with an SS edge and an FF edge, each of which fixes the start
\* of its successor at a positive offset.
C6_Witness ==
    /\ ScheduleDone
    /\ \E i, j \in InducedRows :
          /\ dependencies[i].dependency_type = "SS"
          /\ dependencies[j].dependency_type = "FF"
          /\ starts[dependencies[i].successor_task_code] = Candidate(i)
          /\ starts[dependencies[j].successor_task_code] = Candidate(j)
          /\ Candidate(i) > 0 /\ Candidate(j) > 0

\* The CompiledTask of a selected task code
CompiledOf(tc) == compiled_tasks[CHOOSE i \in DOMAIN compiled_tasks :
                                    compiled_tasks[i].task_code = tc]

Defined(x) == x # None

\* C7: in statutory mode the duration used is statutory_max_days when it
\* is defined; otherwise practical_typical_days when fallback_to_practical
\* is true and that is defined; otherwise 0.
C7_StatutoryModeDuration ==
    ((schedPc = "loop" \/ ScheduleDone) /\ duration_mode = "statutory") =>
        \A tc \in Selected :
            LET t == CompiledOf(tc)
            IN  /\ Defined(t.statutory_max_days) => durs[tc] = t.statutory_max_days[1]
                /\ (~Defined(t.statutory_max_days) /\ fallback_to_practical
                        /\ Defined(t.practical_typical_days))
                      => durs[tc] = t.practical_typical_days[1]
                /\ (~Defined(t.statutory_max_days)
                        /\ ~(fallback_to_practical /\ Defined(t.practical_typical_days)))
                      => durs[tc] = 0

\* Statutory mode without fallback: a task with no statutory value and a
\* practical value of 2 days is given duration 0.
C7_Witness ==
    /\ ScheduleDone /\ duration_mode = "statutory" /\ ~fallback_to_practical
    /\ \E tc \in Selected :
          /\ CompiledOf(tc).statutory_max_days = None
          /\ CompiledOf(tc).practical_typical_days = Some(4)
          /\ durs[tc] = 0

\* C8: in practical mode the duration used is practical_typical_days when
\* defined, otherwise statutory_max_days when defined, otherwise 0,
\* whatever fallback_to_practical is.
C8_PracticalModeDuration ==
    ((schedPc = "loop" \/ ScheduleDone) /\ duration_mode = "practical") =>
        \A tc \in Selected :
            LET t == CompiledOf(tc)
            IN  /\ Defined(t.practical_typical_days) => durs[tc] = t.practical_typical_days[1]
                /\ (~Defined(t.practical_typical_days) /\ Defined(t.statutory_max_days))
                      => durs[tc] = t.statutory_max_days[1]
                /\ (~Defined(t.practical_typical_days) /\ ~Defined(t.statutory_max_days))
                      => durs[tc] = 0

\* Practical mode with fallback_to_practical false: a task with no
\* practical value takes its statutory 1.5 days, and one with neither gets 0.
C8_Witness ==
    /\ ScheduleDone /\ duration_mode = "practical" /\ ~fallback_to_practical
    /\ \E tc \in Selected :
          /\ CompiledOf(tc).practical_typical_days = None
          /\ CompiledOf(tc).statutory_max_days = Some(3)
          /\ durs[tc] = 3
    /\ \E tc \in Selected :
          /\ CompiledOf(tc).practical_typical_days = None
          /\ CompiledOf(tc).statutory_max_days = None
          /\ durs[tc] = 0

\* C9: planned_start is plan start + round(start offset) and
\* planned_finish is plan start + round(start offset + duration).
C9_FinishDateIsRoundedFinishOffset ==
    ScheduleDone =>
        \A tc \in Selected :
            /\ planned[tc].planned_start = plan_start_date + RoundDays(starts[tc])
            /\ planned[tc].planned_finish = plan_start_date + RoundDays(starts[tc] + durs[tc])

\* The scenario of C10: A (2 days), B (3 days), C (1 day), edges A->B and
\* A->C, FS with lag 0, plan start 2024-01-01 (day 0), practical mode.
C10_Scenario ==
    /\ compiled_tasks = << Task("A", None, Some(4)), Task("B", None, Some(6)),
                           Task("C", None, Some(2)) >>
    /\ plan_start_date = 0
    /\ duration_mode = "practical"
    /\ dependencies =
          << [predecessor_task_code |-> "A", successor_task_code |-> "B",
              dependency_type |-> "FS", lag_days |-> Some(0)],
             [predecessor_task_code |-> "A", successor_task_code |-> "C",
              dependency_type |-> "FS", lag_days |-> Some(0)] >>

\* C10: in that scenario the schedule is A 01-01..01-03, B 01-03..01-06,
\* C 01-03..01-04 (days 0..2, 2..5, 2..3), and the critical path over the
\* same durations is [A, B] with total duration 5 days (10 half days).
C10_ConcreteScenario ==
    C10_Scenario =>
        /\ schedPc # "cycle_error" /\ cpPc # "cycle_error"
        /\ schedPc = "done" =>
              /\ DOMAIN planned = {"A", "B", "C"}
              /\ planned["A"].planned_start = 0 /\ planned["A"].planned_finish = 2
              /\ planned["B"].planned_start = 2 /\ planned["B"].planned_finish = 5
              /\ planned["C"].planned_start = 2 /\ planned["C"].planned_finish = 3
        /\ (cpPc = "done" /\ durations = [tc \in {"A", "B", "C"} |-> durs[tc]]) =>
              /\ cpResult[1].critical_path = <<"A", "B">>
              /\ cpResult[1].total_duration = 10

\* Both functions have returned in the scenario.
C10_Witness ==
    /\ C10_Scenario
    /\ schedPc = "done" /\ cpPc = "done"
    /\ durations = [tc \in {"A", "B", "C"} |-> durs[tc]]

\* The dependency chains over the selected tasks: one or more tasks, each
\* joined to the next by an induced edge
Chains ==
    {c \in UNION {[1..n -> Selected] : n \in 1..Cardinality(Selected)} :
        \A i \in 1..(Len(c) - 1) : <<c[i], c[i + 1]>> \in InducedEdges}

RECURSIVE ChainDuration(_)
ChainDuration(c) ==
    IF c = <<>> THEN 0
    ELSE (IF c[1] \in DOMAIN durations THEN durations[c[1]] ELSE 0) + ChainDuration(Tail(c))

\* For every selected task the largest duration of a chain that ends at it
LongestChainTo ==
    LET ch == {<<c[Len(c)], ChainDuration(c)>> : c \in Chains}
    IN  [t \in Selected |-> MaxOf({x[2] : x \in {y \in ch : y[1] = t}})]

\* C11: when critical_path returns, longest_path_len_by_task[t] is the
\* largest sum of durations over the dependency chains ending at t (t alone
\* included, a task missing from durations counting 0), and total_duration
\* is the largest of these values over all tasks.
C11_LongestChainPerTask ==
    cpPc = "done" =>
        LET longest == LongestChainTo
        IN  /\ cpResult[1].longest_path_len_by_task = longest
            /\ cpResult[1].total_duration = MaxOf({longest[t] : t \in Selected})

\* critical_path has returned for a chain of three tasks, one of them
\* missing from the durations map.
C11_Witness ==
    /\ cpPc = "done"
    /\ \E c \in Chains : Len(c) = 3
    /\ \E t \in Selected : t \notin DOMAIN durations
    /\ cpResult[1].total_duration > 0

\* C12: in every result of critical_path each consecutive pair of the path
\* is a dependency edge between selected tasks, no task occurs twice, and
\* the last task is the chosen end node (the first task of the topological
\* order whose longest-path value is the largest).
C12_PathFollowsEdgesToEndNode ==
    cpPc = "done" =>
        LET path == cpResult[1].critical_path
            byTask == cpResult[1].longest_path_len_by_task
        IN  /\ Len(path) >= 1
            /\ \A i \in DOMAIN path : path[i] \in Selected
            /\ \A i \in 1..(Len(path) - 1) : <<path[i], path[i + 1]>> \in InducedEdges
            /\ \A i, j \in DOMAIN path : path[i] = path[j] => i = j
            /\ \E k \in DOMAIN topo :
                  /\ topo[k] = path[Len(path)]
                  /\ \A j \in DOMAIN topo : byTask[topo[j]] <= byTask[topo[k]]
                  /\ \A j \in 1..(k - 1) : byTask[topo[j]] < byTask[topo[k]]

\* critical_path has returned a path of three tasks.
C12_Witness ==
    /\ cpPc = "done"
    /\ Len(cpResult[1].critical_path) = 3

\* The dependency table with every row given the type and lag kd
Retyped(deps, kd) ==
    [i \in DOMAIN deps |->
        [deps[i] EXCEPT !.dependency_type = kd[1], !.lag_days = kd[2]]]

\* C13: the result of critical_path is the one it gives (same topological
\* order, same durations) for the table with the same pairs and any other
\* dependency type and lag in every row.
C13_CriticalPathIgnoresTypeAndLag ==
    (cpPc = "done" /\ ~InducedCycle) =>
        \A k \in DOMAIN DepKinds :
            cpResult[1] =
                CriticalPathOf(topo,
                               EdgesOf(Rels(Retyped(dependencies, DepKinds[k]), Selected)),
                               durations)

\* critical_path has returned on a table with an induced edge, and
\* compute_schedule gave start offsets that it does not give for the same
\* pairs with another type and lag.
C13_Witness ==
    /\ cpPc = "done"
    /\ InducedEdges # {}
    /\ Len(cpResult[1].critical_path) >= 2
    /\ \E k \in DOMAIN DepKinds :
          \E o \in TopoOrders(Selected, InducedEdges) :
              ComputeStarts(Rels(Retyped(dependencies, DepKinds[k]), Selected), o, durs) # starts

\* C20: when the constraint loop has ended, every valid topological order
\* gives the start offsets the loop computed, and recomputing the start of
\* any task from these offsets leaves it as it is.
C20_ForwardPassIsFixpoint ==
    (schedPc = "loop" /\ sIdx > Len(order)) =>
        /\ \A o \in TopoOrders(Selected, InducedEdges) :
              ComputeStarts(SchedRels, o, durs) = starts
        /\ \A tc \in Selected : StartFor(SchedRels, tc, starts, durs) = starts[tc]

\* The loop has ended on a graph with more than one topological order and
\* a task that starts after day 0.
C20_Witness ==
    /\ schedPc = "loop" /\ sIdx > Len(order)
    /\ Cardinality(TopoOrders(Selected, InducedEdges)) >= 2
    /\ InducedEdges # {}
    /\ \E tc \in Selected : starts[tc] > 0

\* The ids (rule_id, or the placeholder of line 34 when a rule has none) of
\* the matching rules among the first n rules, in input order
RECURSIVE IdsOfMatching(_)
IdsOfMatching(n) ==
    IF n = 0 THEN <<>>
    ELSE IF ClaimMatches(rules[n], profile)
         THEN Append(IdsOfMatching(n - 1),
                     IF "rule_id" \in DOMAIN rules[n] THEN rules[n].rule_id ELSE "UNKNOWN")
         ELSE IdsOfMatching(n - 1)

\* C18: the returned matched_rules is the list of the ids of the matching
\* rules and of no other rule, in input order, one entry for each matching
\* rule even when two of them share an id.
C18_MatchedRulesInInputOrder ==
    /\ rePc = "loop" => matched_rules = IdsOfMatching(rIdx - 1)
    /\ rePc = "done" => reResult.matched_rules = IdsOfMatching(Len(rules))

\* The call has returned two entries with the same id, for two matching
\* rules that have a rule that does not match between them.
C18_Witness ==
    /\ rePc = "done"
    /\ Len(rules) = 3
    /\ ClaimMatches(rules[1], profile) /\ ClaimMatches(rules[3], profile)
    /\ ~ClaimMatches(rules[2], profile)
    /\ rules[1] = rules[3]
    /\ Len(reResult.matched_rules) = 2
    /\ reResult.matched_rules[1] = reResult.matched_rules[2]

\* C19: a second call with the same rules and profile returns the
\* matched_rules and final_tasks of the first, and no step of a call changes
\* the rule list or the profile.
C19_NoStateBetweenCalls ==
    /\ [](( rePc = "done" /\ reFirst # None) =>
            /\ reResult.matched_rules = reFirst[1].matched_rules
            /\ reResult.final_tasks = reFirst[1].final_tasks)
    /\ [][rules' = rules /\ profile' = profile]_vars

\* The second call has returned, with matched rules and selected tasks.
C19_Witness ==
    /\ rePc = "done" /\ reFirst # None
    /\ reFirst[1].matched_rules # <<>>
    /\ reFirst[1].final_tasks # <<>>
    /\ reResult = reFirst[1]

(***************************************************************************)
(* Claims about compile_tasks                                              *)
(***************************************************************************)
\* The rows of a task, in table order, and among them those whose cell in
\* the given column is a number
StatutoryRowsOf(tc) ==
    LET Keep(r) == r.task_code = tc
    IN  SelectSeq(lib.statutory_durations, Keep)

PracticalRowsOf(tc) ==
    LET Keep(r) == r.task_code = tc
    IN  SelectSeq(lib.practical_durations, Keep)

NumericRows(rows, column) == {i \in DOMAIN rows : rows[i][column].kind = "num"}

ScoreOf(row) == score(row.rule_scope, profile, matched_rule_ids)

\* The row the selection rule names: of the rows with a number in the
\* column, the one of highest score, the earliest of the table among equals
BestNumericRow(rows, column) ==
    CHOOSE i \in NumericRows(rows, column) :
        \A j \in NumericRows(rows, column) :
            \/ ScoreOf(rows[j]) < ScoreOf(rows[i])
            \/ ScoreOf(rows[j]) = ScoreOf(rows[i]) /\ i <= j

ValueOf(cell) == IF cell.kind = "num" THEN Some(cell.v) ELSE None

\* C14: the statutory duration of every compiled task is the max_days of the
\* highest-scoring row of the task among those with a numeric max_days, the
\* earliest in the table among rows of equal score; undefined when no row
\* has one.
C14_StatutoryIsBestNumericRow ==
    \A k \in DOMAIN compiled :
        LET rows == StatutoryRowsOf(compiled[k].task_code)
        IN  compiled[k].statutory_max_days =
                IF NumericRows(rows, "max_days") = {} THEN None
                ELSE ValueOf(rows[BestNumericRow(rows, "max_days")].max_days)

\* C15: the practical typical, p10 and p90 of every compiled task are those
\* of the highest-scoring row of the task among the rows with a numeric
\* typical_days (the earliest in the table among equals).
C15_PracticalIsBestNumericRow ==
    \A k \in DOMAIN compiled :
        LET rows == PracticalRowsOf(compiled[k].task_code)
        IN  IF NumericRows(rows, "typical_days") = {}
            THEN compiled[k].practical_typical_days = None
            ELSE LET r == rows[BestNumericRow(rows, "typical_days")]
                 IN  /\ compiled[k].practical_typical_days = ValueOf(r.typical_days)
                     /\ compiled[k].practical_p10_days = ValueOf(r.p10_days)
                     /\ compiled[k].practical_p90_days = ValueOf(r.p90_days)

\* C16: statutory_max_days (practical_typical_days) of a compiled task is
\* undefined exactly when no statutory (practical) row of the task has a
\* numeric value, a defined one is the value of such a row, and the
\* Scheduler's duration of the task is 0 only when that is the value it
\* resolves or when the primary and the permitted fallback are undefined.
C16_UndefinedIffNoNumericRow ==
    \A k \in DOMAIN compiled :
        LET t  == compiled[k]
            sr == StatutoryRowsOf(t.task_code)
            pr == PracticalRowsOf(t.task_code)
        IN  /\ t.statutory_max_days = None <=> NumericRows(sr, "max_days") = {}
            /\ t.practical_typical_days = None <=> NumericRows(pr, "typical_days") = {}
            /\ t.statutory_max_days # None =>
                  \E i \in NumericRows(sr, "max_days") :
                      t.statutory_max_days = <<sr[i].max_days.v>>
            /\ t.practical_typical_days # None =>
                  \E i \in NumericRows(pr, "typical_days") :
                      t.practical_typical_days = <<pr[i].typical_days.v>>
            /\ \A fb \in BOOLEAN :
                  /\ get_dur(t, "statutory", fb) = 0 =>
                        \/ t.statutory_max_days = <<0>>
                        \/ t.statutory_max_days = None /\ fb /\ t.practical_typical_days = <<0>>
                        \/ t.statutory_max_days = None /\ (fb => t.practical_typical_days = None)
                  /\ get_dur(t, "practical", fb) = 0 =>
                        \/ t.practical_typical_days = <<0>>
                        \/ t.practical_typical_days = None /\ t.statutory_max_days = <<0>>
                        \/ t.practical_typical_days = None /\ t.statutory_max_days = None

\* The task codes of the table rows selected by task_codes
ExistingSelected ==
    {lib.tasks[i].task_code : i \in DOMAIN lib.tasks} \cap Range(task_codes)

\* C17: compile_tasks returns one CompiledTask for each selected code of the
\* task table and none for another code, by ascending default_order (as a
\* number) and, among equal default_order, ascending task_code.
C17_OnePerSelectedTaskInOrder ==
    compilePc = "done" =>
        /\ {compiled[k].task_code : k \in DOMAIN compiled} = ExistingSelected
        /\ Len(compiled) = Cardinality(ExistingSelected)
        /\ \A k \in DOMAIN compiled : \E i \in DOMAIN lib.tasks :
              /\ lib.tasks[i].task_code = compiled[k].task_code
              /\ lib.tasks[i].default_order = compiled[k].default_order
        /\ \A j, k \in DOMAIN compiled : j < k =>
              \/ compiled[j].default_order < compiled[k].default_order
              \/ /\ compiled[j].default_order = compiled[k].default_order
                 /\ CodeRank(compiled[j].task_code) < CodeRank(compiled[k].task_code)

\* compile_tasks has returned three tasks, two of them with the same
\* default_order, from a table in another order and a selection that names
\* a task twice and a code the table does not have.
C17_Witness ==
    /\ compilePc = "done"
    /\ Len(compiled) = 3
    /\ compiled[1].default_order = 2 /\ compiled[2].default_order = 10
    /\ compiled[3].default_order = 10
    /\ lib.tasks[1].task_code = compiled[3].task_code
    /\ Len(task_codes) > 3
    /\ \E i \in DOMAIN task_codes : task_codes[i] = "X"

(***************************************************************************)
(* Further claims about compute_schedule and critical_path                 *)
(***************************************************************************)
\* The dependency table without the rows that have an endpoint outside the
\* selected tasks
RECURSIVE InducedTable(_)
InducedTable(n) ==
    IF n = 0 THEN <<>>
    ELSE IF n \in InducedRows THEN Append(InducedTable(n - 1), dependencies[n])
         ELSE InducedTable(n - 1)

\* C21: the returned map has exactly the compiled task codes as keys and is
\* the map computed from the table without the rows that have an endpoint
\* outside them; such rows raise no cycle error either.
C21_UnselectedEdgesHaveNoEffect ==
    /\ schedPc = "cycle_error" => InducedCycle
    /\ ScheduleDone =>
          /\ DOMAIN planned = Selected
          /\ LET tbl == InducedTable(Len(dependencies))
                 o   == CHOOSE x \in TopoOrders(Selected, InducedEdges) : TRUE
                 st  == ComputeStarts(tbl, o, durs)
             IN  planned = [tc \in Selected |->
                               PlannedTaskDates(tc, plan_start_date, st, durs)]

\* compute_schedule has returned on a table whose rows form a cycle through
\* the unselected task X, next to a row between selected tasks.
C21_Witness ==
    /\ ScheduleDone
    /\ Selected # {}
    /\ \E i, j \in DOMAIN dependencies :
          /\ dependencies[i].successor_task_code = "X"
          /\ dependencies[j].predecessor_task_code = "X"
          /\ dependencies[i].predecessor_task_code = dependencies[j].successor_task_code

\* C23: the last task of the returned path has the largest
\* longest_path_len_by_task, total_duration is its value, and no task before
\* it in the topological order has that value.
C23_EndNodeIsFirstMaximal ==
    cpPc = "done" =>
        LET path   == cpResult[1].critical_path
            end    == path[Len(path)]
            byTask == cpResult[1].longest_path_len_by_task
            pos    == CHOOSE k \in DOMAIN topo : topo[k] = end
        IN  /\ cpResult[1].total_duration = byTask[end]
            /\ \A t \in Selected : byTask[t] <= byTask[end]
            /\ \A j \in 1..(pos - 1) : byTask[topo[j]] # byTask[end]

\* critical_path has returned on tasks of which two share the largest value;
\* the path ends at the one that is earlier in topo.
C23_Witness ==
    /\ cpPc = "done"
    /\ cpResult[1].total_duration > 0
    /\ \E j, k \in DOMAIN topo :
          /\ j < k
          /\ topo[j] = cpResult[1].critical_path[Len(cpResult[1].critical_path)]
          /\ dist[topo[k]] = dist[topo[j]]

\* C24: every start offset is >= 0, no planned_start is before
\* plan_start_date, and every planned_finish is on or after the
\* planned_start of its task.
C24_StartsNotBeforePlanStart ==
    /\ schedPc \in {"loop", "done"} => \A tc \in DOMAIN starts : starts[tc] >= 0
    /\ ScheduleDone =>
          \A tc \in DOMAIN planned :
              /\ planned[tc].planned_start >= plan_start_date
              /\ planned[tc].planned_finish >= planned[tc].planned_start

\* compute_schedule has returned with a task that starts at offset 0 though
\* an incoming edge asks for a negative start.
C24_Witness ==
    /\ ScheduleDone
    /\ \E i \in InducedRows :
          /\ Candidate(i) < 0
          /\ starts[dependencies[i].successor_task_code] = 0

\* C25: for every FS row P->S between selected tasks with a lag of a whole
\* number of days, planned_start(S) is on or after planned_finish(P) plus
\* the lag.
C25_DatesRespectFinishToStart ==
    ScheduleDone =>
        \A i \in InducedRows :
            LET r == dependencies[i]
                L == IF r.lag_days = None THEN 0 ELSE r.lag_days[1]
            IN  (r.dependency_type = "FS" /\ L % 2 = 0) =>
                    planned[r.successor_task_code].planned_start >=
                        planned[r.predecessor_task_code].planned_finish + (L \div 2)

\* Every induced row is FS with lag 0 and critical_path was given the
\* durations the Scheduler resolved.
AllFinishToStartNoLag ==
    /\ \A i \in InducedRows :
          dependencies[i].dependency_type = "FS" /\ dependencies[i].lag_days = <<0>>
    /\ durations = durs

\* C26: when every edge is FS with lag 0 and critical_path has the
\* Scheduler's durations, each task's finish offset is its
\* longest_path_len_by_task and the latest finish offset is total_duration.
C26_ScheduleFinishIsLongestPath ==
    (cpPc = "done" /\ AllFinishToStartNoLag) =>
        /\ \A t \in Selected :
              FinishOffset(t) = cpResult[1].longest_path_len_by_task[t]
        /\ MaxOf({FinishOffset(t) : t \in Selected}) = cpResult[1].total_duration

\* Both functions have returned on two FS rows with lag 0 into the same
\* task.
C26_Witness ==
    /\ cpPc = "done" /\ AllFinishToStartNoLag
    /\ \E i, j \in InducedRows :
          /\ i # j
          /\ dependencies[i].successor_task_code = dependencies[j].successor_task_code
    /\ cpResult[1].total_duration > 0

RECURSIVE PathDuration(_)
PathDuration(path) ==
    IF path = <<>> THEN 0
    ELSE (IF path[1] \in DOMAIN durations THEN durations[path[1]] ELSE 0)
         + PathDuration(Tail(path))

\* C27: total_duration is the sum of the durations of the tasks on the
\* returned path, a task missing from the durations map counting 0.
C27_TotalIsSumAlongPath ==
    cpPc = "done" =>
        cpResult[1].total_duration = PathDuration(cpResult[1].critical_path)

\* critical_path has returned a path of three tasks, one of them of
\* duration 0.
C27_Witness ==
    /\ cpPc = "done"
    /\ Len(cpResult[1].critical_path) = 3
    /\ \E i \in DOMAIN cpResult[1].critical_path :
          Get(durations, cpResult[1].critical_path[i], 0) = 0
    /\ cpResult[1].total_duration > 0

\* The selected predecessors of the first task of the returned path
PredecessorsOfFirst ==
    {e[1] : e \in {d \in InducedEdges : d[2] = cpResult[1].critical_path[1]}}

\* C28 as stated: the first task of the returned path has no incoming edge
\* from a selected task.
C28_Original ==
    cpPc = "done" => PredecessorsOfFirst = {}

\* C28: every selected predecessor of the first task of the returned path
\* has longest_path_len_by_task 0, so the first task has no incoming edge
\* when every task has a positive duration.
C28_FirstTaskHasOnlyZeroPredecessors ==
    cpPc = "done" =>
        /\ \A p \in PredecessorsOfFirst : cpResult[1].longest_path_len_by_task[p] = 0
        /\ (\A t \in Selected : t \in DOMAIN durations /\ durations[t] > 0) =>
              PredecessorsOfFirst = {}

\* critical_path has returned a path of two tasks whose first task has a
\* predecessor of duration 0.
C28_Witness ==
    /\ cpPc = "done"
    /\ Len(cpResult[1].critical_path) = 2
    /\ PredecessorsOfFirst # {}

\* C29: without a cycle among the selected tasks neither function fails;
\* for an empty task list critical_path returns the empty path with
\* total_duration 0 and compute_schedule returns the empty map.
C29_OnlyCyclesFail ==
    /\ ~InducedCycle =>
          /\ schedPc # "cycle_error"
          /\ cpPc \notin {"cycle_error", "max_error"}
    /\ (Selected = {} /\ schedPc = "done") => planned = <<>>
    /\ (Selected = {} /\ cpPc \notin {"idle", "start", "loop"}) =>
          /\ cpPc = "done"
          /\ cpResult[1].critical_path = <<>>
          /\ cpResult[1].total_duration = 0

(***************************************************************************)
(* Further claims about compile_tasks                                      *)
(***************************************************************************)
\* The values of the filters `key` of a scope: the tokens between a key
\* and the next ";" (or the end of the scope)
FilterValues(s, key) ==
    {SubSeq(s, i + 1, j - 1) :
        <<i, j>> \in {x \in (1..Len(s)) \X (1..(Len(s) + 1)) :
                        /\ s[x[1]] = key
                        /\ x[2] > x[1]
                        /\ (x[2] <= Len(s) => s[x[2]] = ";")
                        /\ \A k \in (x[1] + 1)..(x[2] - 1) : s[k] # ";"}}

\* The score the rule gives: 3 for a classification filter equal to the
\* profile's value or ANY, 2 for such an environmental_regime filter, 2 for
\* a scope that is one of the matched rule ids
StatedScore(s, p, ids) ==
    (IF FilterValues(s, "classification=") \cap {<<p["classification"]>>, <<"ANY">>} # {}
     THEN 3 ELSE 0)
    + (IF FilterValues(s, "environmental_regime=")
            \cap {<<p["environmental_regime"]>>, <<"ANY">>} # {}
       THEN 2 ELSE 0)
    + (IF \E i \in DOMAIN ids : s = <<ids[i]>> THEN 2 ELSE 0)

\* C22: the score of every duration row of a compiled task is 3 for a
\* classification filter equal to the profile's classification or ANY, plus
\* 2 for such an environmental_regime filter, plus 2 for a scope equal to a
\* matched rule id; a filter with another value, one that starts with the
\* profile's value included, adds nothing.
C22_ScoreWeights ==
    \A k \in DOMAIN compiled :
        \A i \in DOMAIN StatutoryRowsOf(compiled[k].task_code) :
            LET sc == StatutoryRowsOf(compiled[k].task_code)[i].rule_scope
            IN  score(sc, profile, matched_rule_ids)
                    = StatedScore(sc, profile, matched_rule_ids)


(***************************************************************************)
(* notebooks/04_instantiate_project_to_clickup.py: the upsert of main.     *)
(*                                                                         *)
(* The ClickUp list is a server that stores every task create_task posts   *)
(* and every custom-field value set_custom_field_value posts; a task's id  *)
(* is its position in server_tasks.  A stored task keeps the name of its   *)
(* payload (here the task code the payload was built for) and its Task     *)
(* Code field (None until it is set).  The client is not in dry-run mode.  *)
(* Any request of the client can raise ClickUpError (no connection, HTTP   *)
(* status >= 400); main catches nothing in the upsert loop, so the run     *)
(* stops there.  A request that raised has stored nothing.                 *)
(***************************************************************************)

\* The compiled lists main works on: compile_tasks' result for one, two and
\* three selected tasks (task codes are unique, validators.py lines 22-27).
ClickCompiledLists ==
    LET ct(c, n) == CompiledTask([task_code |-> c, default_order |-> n],
                                 None, <<None, None, None>>, <<"R1">>)
    IN  { <<ct("A", 1)>>,
          <<ct("A", 1), ct("B", 2)>>,
          <<ct("B", 1), ct("A", 2), ct("C", 3)>> }

ServerTask(name, code) == [name |-> name, task_code |-> code]

\* What the list holds before the first run: nothing, the task of A from
\* an earlier instantiation, or a hand-made task without Task Code and the
\* task of B.
InitialServers ==
    { << >>,
      <<ServerTask("A", Some("A"))>>,
      <<ServerTask("x", None), ServerTask("B", Some("B"))>> }

\* fetch_all_tasks, lines 73-86: the pages of get_tasks, concatenated until
\* an empty page (at most 201 pages, far more than a list of the model
\* holds); each task with its id and its custom fields.
fetch_all_tasks(srv) ==
    [i \in DOMAIN srv |-> [id |-> i, task_code |-> srv[i].task_code]]

\* extract_task_code_from_task, lines 175-183: the value of the Task Code
\* field as a string, None when the field has no value.
extract_task_code_from_task(task) == task.task_code

\* Lines 276-280: the index by Task Code; a task without (or with an empty)
\* Task Code is left out, a later task with the same code replaces an
\* earlier one.
RECURSIVE IndexByTaskCode(_, _, _)
IndexByTaskCode(existing_tasks, i, acc) ==
    IF i > Len(existing_tasks) THEN acc
    ELSE LET et     == existing_tasks[i]
             tc_val == extract_task_code_from_task(et)
         IN  IndexByTaskCode(existing_tasks, i + 1,
                IF tc_val # None /\ tc_val[1] # ""
                THEN [k \in DOMAIN acc \cup {tc_val[1]} |->
                         IF k = tc_val[1] THEN et.id ELSE acc[k]]
                ELSE acc)

Call(r, op, tc) == [run |-> r, op |-> op, task_code |-> tc]

\* Lines 275-284
ClickFetch ==
    /\ clickPc = "fetch"
    /\ existing_by_task_code' = IndexByTaskCode(fetch_all_tasks(server_tasks), 1, <<>>)
    /\ uIdx' = 1
    /\ clickPc' = "loop"
    /\ UNCHANGED <<reVars, schedVars, cpVars, compileVars, server_tasks, tid, calls, run>>

\* Lines 286-309: update_task on the fetched task with this Task Code, else
\* create_task, which stores a new task (no custom field set yet) and
\* returns its id.
ClickUpsert ==
    /\ clickPc = "loop"
    /\ uIdx <= Len(compiled)
    /\ LET t == compiled[uIdx]
       IN  IF t.task_code \in DOMAIN existing_by_task_code
           THEN /\ tid' = existing_by_task_code[t.task_code]
                /\ calls' = Append(calls, Call(run, "update_task", t.task_code))
                /\ UNCHANGED server_tasks
           ELSE /\ server_tasks' = Append(server_tasks, ServerTask(t.task_code, None))
                /\ tid' = Len(server_tasks) + 1
                /\ calls' = Append(calls, Call(run, "create_task", t.task_code))
    /\ clickPc' = "task_code"
    /\ UNCHANGED <<reVars, schedVars, cpVars, compileVars, existing_by_task_code, uIdx, run>>

\* Line 312: set_field_value_by_name(..., "Task Code", t.task_code,
\* strict=True) posts the field value of task tid.
ClickSetTaskCode ==
    /\ clickPc = "task_code"
    /\ server_tasks' = [server_tasks EXCEPT
                           ![tid].task_code = Some(compiled[uIdx].task_code)]
    /\ clickPc' = "fields"
    /\ UNCHANGED <<reVars, schedVars, cpVars, compileVars, existing_by_task_code, tid,
                   uIdx, calls, run>>

\* Lines 313-337: the other custom fields of task tid; then the next task.
ClickSetOtherFields ==
    /\ clickPc = "fields"
    /\ uIdx' = uIdx + 1
    /\ clickPc' = "loop"
    /\ UNCHANGED <<reVars, schedVars, cpVars, compileVars, server_tasks,
                   existing_by_task_code, tid, calls, run>>

\* client.request raises ClickUpError in the next request of the loop
\* (update_task or create_task, the Task Code field, another field); the
\* exception leaves main.
ClickRaise ==
    /\ \/ clickPc = "loop" /\ uIdx <= Len(compiled)
       \/ clickPc \in {"task_code", "fields"}
    /\ clickPc' = "error"
    /\ UNCHANGED <<reVars, schedVars, cpVars, compileVars, server_tasks,
                   existing_by_task_code, tid, uIdx, calls, run>>

\* Lines 339-352: the loop is over; the dependency step neither creates nor
\* updates a task and catches its own errors.
ClickReturn ==
    /\ clickPc = "loop"
    /\ uIdx > Len(compiled)
    /\ clickPc' = "done"
    /\ UNCHANGED <<reVars, schedVars, cpVars, compileVars, server_tasks,
                   existing_by_task_code, tid, uIdx, calls, run>>

\* Lines 355-356: the notebook is run again on the same profile and library
\* (so the same compiled list) against the same list; the locals are new.
ClickRunAgain ==
    /\ clickPc \in {"done", "error"}
    /\ run < MaxRuns
    /\ run' = run + 1
    /\ existing_by_task_code' = <<>>
    /\ tid' = 0
    /\ uIdx' = 1
    /\ clickPc' = "fetch"
    /\ UNCHANGED <<reVars, schedVars, cpVars, compileVars, server_tasks, calls>>

\* main has compiled the tasks (lines 189-200) and is about to fetch.
ClickInit ==
    /\ rules = <<>> /\ profile = [d \in Dims |-> "a"]
    /\ rIdx = 1 /\ ok = TRUE /\ included = {}
    /\ excluded = {} /\ matched_rules = <<>> /\ reResult = None /\ reFirst = None
    /\ rePc = "idle"
    /\ compiled_tasks = <<>> /\ dependencies = <<>> /\ plan_start_date = 0
    /\ duration_mode = "practical" /\ fallback_to_practical = TRUE
    /\ order = <<>> /\ starts = <<>> /\ durs = <<>> /\ sIdx = 1
    /\ planned = <<>> /\ schedPc = "idle"
    /\ durations = <<>> /\ topo = <<>> /\ dist = <<>> /\ pred = <<>>
    /\ cIdx = 1 /\ cpResult = None /\ cpPc = "idle"
    /\ lib = <<>> /\ task_codes = <<>> /\ matched_rule_ids = <<"R1">>
    /\ tasks = <<>> /\ compiled \in ClickCompiledLists /\ compilePc = "done"
    /\ server_tasks \in InitialServers
    /\ existing_by_task_code = <<>> /\ tid = 0 /\ uIdx = 1 /\ calls = <<>>
    /\ run = 1 /\ clickPc = "fetch"

ClickNext ==
    \/ ClickFetch \/ ClickUpsert \/ ClickSetTaskCode \/ ClickSetOtherFields
    \/ ClickRaise \/ ClickReturn \/ ClickRunAgain

SpecClickUp == ClickInit /\ [][ClickNext]_vars

(***************************************************************************)
(* Claim about the ClickUp instantiation run                               *)
(***************************************************************************)

CallsOf(r, tc) ==
    {i \in DOMAIN calls : calls[i].run = r /\ calls[i].task_code = tc}

ServerTasksWithCode(tc) ==
    {k \in DOMAIN server_tasks : server_tasks[k].task_code = Some(tc)}

CompiledCodes == {compiled[i].task_code : i \in DOMAIN compiled}

\* C30: the run is an idempotent upsert keyed by Task Code.  In every run
\* each compiled task gets at most one call (exactly one once the run is
\* done), update_task when a fetched task carries its Task Code and
\* create_task otherwise; a task that create_task made in one run is not
\* made again by a later run, also when the earlier run stopped with an
\* error part-way through a task; and the server never holds two tasks with
\* the same Task Code.
C30_IdempotentUpsert ==
    /\ \A r \in 1..run : \A tc \in CompiledCodes : Cardinality(CallsOf(r, tc)) <= 1
    /\ clickPc = "done" =>
          \A tc \in CompiledCodes : Cardinality(CallsOf(run, tc)) = 1
    /\ \A i \in DOMAIN calls :
          calls[i].run = run =>
             (calls[i].op = "update_task"
                 <=> calls[i].task_code \in DOMAIN existing_by_task_code)
    /\ \A i \in DOMAIN calls : \A j \in DOMAIN calls :
          (/\ calls[i].op = "create_task"
           /\ calls[j].task_code = calls[i].task_code
           /\ calls[j].run > calls[i].run) => calls[j].op = "update_task"
    /\ \A tc \in CompiledCodes : Cardinality(ServerTasksWithCode(tc)) <= 1

====
